---- MODULE Spec2Model ----
(***************************************************************************)
(* The FBX 7.4 DOM loader of fbxcel (dom/v7400/document/loader.rs) as a    *)
(* state machine over a node arena.                                        *)
(*                                                                         *)
(* A string is a sequence of chunks of bytes; the chunk SEP is the two     *)
(* bytes 0x00 0x01.  A StrSym is the 1-based position of a string in the   *)
(* interner.  A NodeId is the 1-based position of a node in the arena; the *)
(* value NoNode stands for Option::None of a node id.                      *)
(***************************************************************************)
EXTENDS Integers, Sequences, FiniteSets, TLC

\* The largest number of nodes directly under `Objects`, `Documents` and
\* `Connections`, taken together, of the files explored.
MaxNodes == 3

\* The largest number of nodes under the root of the trees first_node_by_path
\* is applied to, and the longest path it is given.
MaxTreeNodes == 4

MaxPath == 3

\* The largest number of bytes of the streams a ParserSource reads.
MaxStream == 3

\* The largest number of items of the iterators an array visitor is given.
MaxItems == 2

\* Option::None of a node id or of a symbol.
NoNode == 0

SEP == "0x00 0x01"

Str(chunk) == <<chunk>>

EmptyStr == <<>>

-----------------------------------------------------------------------------
(* Attribute values (the variants the loader reads).                       *)

I64(n) == [type |-> "I64", i |-> n, s |-> EmptyStr]

String(str) == [type |-> "String", i |-> 0, s |-> str]

-----------------------------------------------------------------------------
(* The string interner.                                                    *)

InternerHas(strings, str) == \E k \in 1..Len(strings) : strings[k] = str

\* The symbol of str: the one it has, or the next free one.
InternerSym(strings, str) ==
    IF InternerHas(strings, str)
    THEN CHOOSE k \in 1..Len(strings) : strings[k] = str
    ELSE Len(strings) + 1

\* The interner after get_or_intern(str).
InternerAdd(strings, str) ==
    IF InternerHas(strings, str) THEN strings ELSE Append(strings, str)

RECURSIVE InternerAddAll(_, _)
InternerAddAll(strings, strs) ==
    IF strs = <<>> THEN strings
    ELSE InternerAddAll(InternerAdd(strings, Head(strs)), Tail(strs))

-----------------------------------------------------------------------------
(* The files explored, as the parser's depth-first sequence of nodes       *)
(* [name, attributes, depth].                                              *)

Ev(name, attributes, depth) ==
    [name |-> name, attributes |-> attributes, depth |-> depth]

\* An object node's attributes: id, "subclass SEP class", "name SEP class".
ObjAttrs(id, subclass, class, name) ==
    <<I64(id), String(<<subclass, SEP, class>>), String(<<name, SEP, class>>)>>

RootNodeEv == Ev(Str("RootNode"), <<I64(0)>>, 3)

\* The children of `Objects`, each with its sub-nodes.
ObjectKinds ==
    { <<Ev(Str("Model"), ObjAttrs(1, "Mesh", "Model", "Cube"), 2)>>,
      <<Ev(Str("Geometry"), ObjAttrs(2, "Mesh", "Geometry", "Cube"), 2)>>,
      <<Ev(Str("Model"), <<I64(2), String(<<"Mesh">>)>>, 2)>>,
      <<Ev(Str("Document"), ObjAttrs(3, "Scene", "Document", "Doc"), 2)>> }

\* The children of `Documents`, each with its sub-nodes.
DocumentKinds ==
    { <<Ev(Str("Document"), ObjAttrs(3, "Scene", "Document", "Doc"), 2), RootNodeEv>>,
      <<Ev(Str("Document"), ObjAttrs(1, "Scene", "Document", "Doc"), 2), RootNodeEv>>,
      <<Ev(Str("Document"), ObjAttrs(4, "Scene", "Document", "Doc"), 2)>>,
      <<Ev(Str("Document"), ObjAttrs(4, "Mesh", "Document", "Doc"), 2), RootNodeEv>>,
      <<Ev(Str("Document"), <<String(<<"Scene", SEP, "Document">>)>>, 2), RootNodeEv>>,
      <<Ev(Str("Other"), ObjAttrs(5, "Scene", "Document", "Doc"), 2), RootNodeEv>> }

\* The children of `Connections`.
ConnectionKinds ==
    { <<Ev(Str("C"), <<String(<<"OO">>), I64(1), I64(0)>>, 2)>>,
      <<Ev(Str("C"), <<String(<<"OO">>), I64(1), I64(2)>>, 2)>>,
      <<Ev(Str("C"), <<String(<<"OP">>), I64(1), I64(2), String(<<"Lcl Translation">>)>>, 2)>>,
      <<Ev(Str("C"), <<String(<<"PP">>), I64(2), I64(1), String(<<"a">>), String(<<"b">>)>>, 2)>>,
      <<Ev(Str("C"), <<String(<<"OO">>), I64(1)>>, 2)>>,
      <<Ev(Str("Other"), <<String(<<"OO">>), I64(1), I64(2)>>, 2)>> }

RECURSIVE Flatten(_)
Flatten(seqs) ==
    IF seqs = <<>> THEN <<>> ELSE Head(seqs) \o Flatten(Tail(seqs))

\* A top-level node with the given children.
Section(name, kids) == <<Ev(Str(name), <<>>, 1)>> \o Flatten(kids)

\* The children lists of a top-level node that is absent (none) or present
\* with n children.
SectionsOf(name, kinds, n) ==
    { Section(name, kids) : kids \in [1..n -> kinds] }
      \cup (IF n = 0 THEN {<<>>} ELSE {})

Shapes ==
    { t \in (0..MaxNodes) \X (0..MaxNodes) \X (0..MaxNodes) :
        t[1] + t[2] + t[3] <= MaxNodes }

Files ==
    UNION { { os \o ds \o cs :
                <<os, ds, cs>> \in SectionsOf("Objects", ObjectKinds, t[1])
                                   \X SectionsOf("Documents", DocumentKinds, t[2])
                                   \X SectionsOf("Connections", ConnectionKinds, t[3]) } :
            t \in Shapes }

-----------------------------------------------------------------------------
(* The node arena (Core): built by one depth-first pass over the parser's  *)
(* nodes; the root has an empty name and no attributes.                    *)

Depths(events) == <<0>> \o [k \in 1..Len(events) |-> events[k].depth]

ParentOf(D, n) ==
    IF n = 1 THEN NoNode
    ELSE CHOOSE j \in 1..(n - 1) :
           /\ D[j] = D[n] - 1
           /\ \A k \in (j + 1)..(n - 1) : D[k] >= D[n]

FirstChildOf(D, n) ==
    IF n + 1 <= Len(D) /\ D[n + 1] = D[n] + 1 THEN n + 1 ELSE NoNode

NextSiblingOf(D, n) ==
    LET later == { j \in (n + 1)..Len(D) :
                     /\ D[j] = D[n]
                     /\ \A k \in (n + 1)..(j - 1) : D[k] > D[n] }
    IN IF later = {} THEN NoNode ELSE CHOOSE j \in later : TRUE

CoreStrings(events) ==
    InternerAddAll(<<EmptyStr>>, [k \in 1..Len(events) |-> events[k].name])

CoreArena(events) ==
    LET D == Depths(events)
        strs == CoreStrings(events)
        names == <<EmptyStr>> \o [k \in 1..Len(events) |-> events[k].name]
        attrs == <<(<<>>)>> \o [k \in 1..Len(events) |-> events[k].attributes]
    IN [n \in 1..Len(D) |->
          [name |-> InternerSym(strs, names[n]),
           attributes |-> attrs[n],
           parent |-> ParentOf(D, n),
           first_child |-> FirstChildOf(D, n),
           next_sibling |-> NextSiblingOf(D, n)]]

\* Core::root
RootId == 1

\* The children of node id, in sibling order.
RECURSIVE SiblingsFrom(_, _)
SiblingsFrom(arena, id) ==
    IF id = NoNode THEN <<>>
    ELSE <<id>> \o SiblingsFrom(arena, arena[id].next_sibling)

Children(arena, id) == SiblingsFrom(arena, arena[id].first_child)

\* Core::children_by_name: the children whose interned name is the symbol
\* of name.
ChildrenByName(arena, strings, id, name) ==
    SelectSeq(Children(arena, id),
              LAMBDA c : arena[c].name = InternerSym(strings, name))

\* An iterator's last item: the match the walk is not to take.
LastOrNone(ids) == IF ids = <<>> THEN NoNode ELSE ids[Len(ids)]

\* Iterator::next on a fresh iterator.
FirstOrNone(ids) == IF ids = <<>> THEN NoNode ELSE Head(ids)

\* Core::find_toplevel: the first child of the root with that name.
FindToplevel(arena, strings, name) ==
    FirstOrNone(ChildrenByName(arena, strings, RootId, name))

-----------------------------------------------------------------------------
(* Decoders of the object layer.                                           *)

\* The position of the first SEP chunk of str, or 0.
FindSep(str) ==
    IF \E p \in 1..Len(str) : str[p] = SEP
    THEN CHOOSE p \in 1..Len(str) :
           str[p] = SEP /\ \A q \in 1..(p - 1) : str[q] # SEP
    ELSE 0

BeforeSep(str) == SubSeq(str, 1, FindSep(str) - 1)

AfterSep(str) == SubSeq(str, FindSep(str) + 1, Len(str))

IsI64At(attrs, k) == k <= Len(attrs) /\ attrs[k].type = "I64"

IsStringAt(attrs, k) == k <= Len(attrs) /\ attrs[k].type = "String"

\* ObjectMeta: the id and the symbols of the three strings in strs.
ObjectMetaNew(id, name, class, subclass, strs) ==
    [ok |-> TRUE,
     meta |-> [id |-> id,
               name |-> InternerSym(strs, name),
               class |-> InternerSym(strs, class),
               subclass |-> InternerSym(strs, subclass)],
     strings |-> strs]

\* ObjectMeta::from_attributes: [I64 id, String "subclass SEP class",
\* String "name SEP class"]; the strings are interned on success.
ObjectMetaFromAttributes(attrs, strs) ==
    IF /\ IsI64At(attrs, 1)
       /\ IsStringAt(attrs, 2) /\ FindSep(attrs[2].s) # 0
       /\ IsStringAt(attrs, 3) /\ FindSep(attrs[3].s) # 0
       /\ AfterSep(attrs[3].s) = AfterSep(attrs[2].s)
    THEN ObjectMetaNew(attrs[1].i, BeforeSep(attrs[3].s), AfterSep(attrs[2].s),
                       BeforeSep(attrs[2].s),
                       InternerAddAll(strs, <<BeforeSep(attrs[3].s), AfterSep(attrs[2].s),
                                              BeforeSep(attrs[2].s)>>))
    ELSE [ok |-> FALSE,
          meta |-> [id |-> 0, name |-> NoNode, class |-> NoNode, subclass |-> NoNode],
          strings |-> strs]

\* The scene data read from the node root_node, if there is one.
SceneNodeDataOf(nodes, root_node) ==
    IF root_node # NoNode /\ IsI64At(nodes[root_node].attributes, 1)
    THEN [ok |-> TRUE, data |-> [root_object_id |-> nodes[root_node].attributes[1].i]]
    ELSE [ok |-> FALSE, data |-> [root_object_id |-> 0]]

\* SceneNodeData::load: the first `RootNode` child of the scene node and its
\* first attribute, an I64, the root object id.
SceneNodeDataLoad(nodes, strs, node_id) ==
    SceneNodeDataOf(nodes, FirstOrNone(ChildrenByName(nodes, strs, node_id, Str("RootNode"))))

EdgeTypes == {Str("OO"), Str("OP"), Str("PO"), Str("PP")}

\* The number of labels each edge variant carries.
LabelCount(type) ==
    IF type = Str("OO") THEN 0 ELSE IF type = Str("PP") THEN 2 ELSE 1

\* Connection: the labels as symbols of strs.
ConnectionNew(type, source, destination, labels, index, strs) ==
    [ok |-> TRUE,
     conn |-> [source |-> source,
               destination |-> destination,
               edge |-> [type |-> type,
                         labels |-> [k \in 1..Len(labels) |-> InternerSym(strs, labels[k])]],
               index |-> index],
     strings |-> strs]

\* The label attributes of an edge of the given type.
LabelsOf(attrs, type) == [k \in 1..LabelCount(type) |-> attrs[3 + k].s]

\* Connection::load_from_attributes: [String type, I64 source, I64
\* destination, labels...]; the labels are interned.
ConnectionLoadFromAttributes(attrs, strs, index) ==
    IF /\ IsStringAt(attrs, 1) /\ attrs[1].s \in EdgeTypes
       /\ IsI64At(attrs, 2) /\ IsI64At(attrs, 3)
       /\ \A k \in 1..LabelCount(attrs[1].s) : IsStringAt(attrs, 3 + k)
    THEN ConnectionNew(attrs[1].s[1], attrs[2].i, attrs[3].i,
                       LabelsOf(attrs, attrs[1].s), index,
                       InternerAddAll(strs, LabelsOf(attrs, attrs[1].s)))
    ELSE [ok |-> FALSE,
          conn |-> [source |-> 0, destination |-> 0,
                    edge |-> [type |-> "", labels |-> <<>>], index |-> index],
          strings |-> strs]

-----------------------------------------------------------------------------
(* The objects graph: the connections in insertion order, at most one per  *)
(* (source, destination).                                                  *)

HasEdge(graph, source, destination) ==
    \E k \in 1..Len(graph) :
        graph[k].source = source /\ graph[k].destination = destination

\* ObjectsGraph::edge_weight
EdgeWeight(graph, source, destination) ==
    graph[CHOOSE k \in 1..Len(graph) :
            graph[k].source = source /\ graph[k].destination = destination]

\* ObjectsGraph::add_connection: a new edge, or a new weight for the edge
\* that exists.
GraphAddConnection(graph, conn) ==
    IF HasEdge(graph, conn.source, conn.destination)
    THEN [k \in 1..Len(graph) |->
            IF graph[k].source = conn.source /\ graph[k].destination = conn.destination
            THEN conn ELSE graph[k]]
    ELSE Append(graph, conn)

-----------------------------------------------------------------------------
(* The loader (LoaderImpl).                                                *)

VARIABLES
    strict,          \* config.strict
    arena,           \* core: the node records
    strings,         \* core: the string interner
    object_ids,      \* object id -> object node id
    object_meta,     \* parsed_node_data: object node id -> ObjectMeta
    scenes,          \* parsed_node_data: scene node id -> SceneNodeData
    objects_graph,   \* the connections, in insertion order
    pc,              \* the place load_document has reached
    next_node_id,    \* the loops' cursor
    conn_index,      \* load_connections' counter
    warnings,        \* the non-critical errors ignored so far
    result           \* what load_document returned

loaderVars == <<strict, arena, strings, object_ids, object_meta, scenes,
                objects_graph, pc, next_node_id, conn_index, warnings, result>>

\* NodeId::first_node_by_path on the arena.
VARIABLES
    self_id,         \* self: the node the walk starts from
    path,            \* path: the names to follow
    first_node       \* what first_node_by_path returned

walkVars == <<self_id, path, first_node>>

\* A ParserSource over a stream of bytes.
VARIABLES
    stream_len,      \* the number of bytes the underlying reader holds
    stream_offset,   \* the number of bytes the underlying reader has yielded
    position,        \* what position() returns
    source_call      \* the last call on the source and its outcome

sourceVars == <<stream_len, stream_offset, position, source_call>>

\* An attribute visitor and the callback it was given.
VARIABLES
    visitor,         \* the VisitAttribute implementation
    visited          \* the callback called on it and what it returned

visitorVars == <<visitor, visited>>

\* An attribute value and the getter called on it.
VARIABLES
    attribute,       \* the AttributeValue or DirectAttributeValue
    getter           \* the getter called on it and what it returned

valueVars == <<attribute, getter>>

vars == <<loaderVars, walkVars, sourceVars, visitorVars, valueVars>>

\* The state of the parts that are not in use.
NoCall == [op |-> "none", arg |-> 0, res |-> "none"]

NoWalk == self_id = NoNode /\ path = <<>> /\ first_node = [kind |-> "none", id |-> NoNode]

NoSource == stream_len = 0 /\ stream_offset = 0 /\ position = 0 /\ source_call = NoCall

NoVisitor ==
    /\ visitor = [kind |-> "none", ty |-> "none"]
    /\ visited = [method |-> "none"]

NoValue ==
    /\ attribute = [enum |-> "none", variant |-> "none"]
    /\ getter = [name |-> "none"]

outsideLoader == <<walkVars, sourceVars, visitorVars, valueVars>>

EmptyMap == [k \in {} |-> 0]

MapPut(map, key, value) ==
    [k \in DOMAIN map \cup {key} |-> IF k = key THEN value ELSE map[k]]

Running == [kind |-> "Running", err |-> ""]

ReturnedOk == [kind |-> "Ok", err |-> ""]

ReturnedErr(err) == [kind |-> "Err", err |-> err]

Panicked(msg) == [kind |-> "Panic", err |-> msg]

\* err_if_strict that takes the loose branch in both modes.
ErrIfStrict_AlwaysLoosen(is_strict, err) ==
    [res |-> ReturnedOk, warned |-> <<err>>]

\* LoaderImpl::err_if_strict, with the loosen closure every caller passes
\* (log the error, Ok(())).
ErrIfStrict(is_strict, err) ==
    IF is_strict
    THEN [res |-> ReturnedErr(err), warned |-> <<>>]
    ELSE [res |-> ReturnedOk, warned |-> <<err>>]

\* Registration that stores the metadata of a node whose id is taken.
RegisterObject_MetaOfDuplicate(is_strict, ids, metas, node_id, parsed) ==
    [res |-> IF parsed.meta.id \in DOMAIN ids
             THEN ErrIfStrict(is_strict, "DuplicateObjectId").res ELSE ReturnedOk,
     warned |-> IF parsed.meta.id \in DOMAIN ids
                THEN ErrIfStrict(is_strict, "DuplicateObjectId").warned ELSE <<>>,
     strings |-> parsed.strings,
     object_ids |-> IF parsed.meta.id \in DOMAIN ids THEN ids
                    ELSE MapPut(ids, parsed.meta.id, node_id),
     object_meta |-> MapPut(metas, node_id, parsed.meta)]

\* add_object, the registration of the decoded metadata: the duplicate-id
\* check, the two inserts and the assertion.
RegisterObject(is_strict, ids, metas, node_id, parsed) ==
    IF parsed.meta.id \in DOMAIN ids
    THEN [res |-> ErrIfStrict(is_strict, "DuplicateObjectId").res,
          warned |-> ErrIfStrict(is_strict, "DuplicateObjectId").warned,
          strings |-> parsed.strings, object_ids |-> ids, object_meta |-> metas]
    ELSE [res |-> IF node_id \in DOMAIN metas
                  THEN Panicked("assertion failed: !meta_dup") ELSE ReturnedOk,
          warned |-> <<>>,
          strings |-> parsed.strings,
          object_ids |-> MapPut(ids, parsed.meta.id, node_id),
          object_meta |-> MapPut(metas, node_id, parsed.meta)]

\* add_object, after ObjectMeta::from_attributes.
AddParsedObject(is_strict, ids, metas, node_id, parsed) ==
    IF ~parsed.ok
    THEN [res |-> ErrIfStrict(is_strict, "ObjectLoadError").res,
          warned |-> ErrIfStrict(is_strict, "ObjectLoadError").warned,
          strings |-> parsed.strings, object_ids |-> ids, object_meta |-> metas]
    ELSE RegisterObject(is_strict, ids, metas, node_id, parsed)

\* LoaderImpl::add_object.
AddObject(is_strict, nodes, strs, ids, metas, node_id) ==
    AddParsedObject(is_strict, ids, metas, node_id,
                    ObjectMetaFromAttributes(nodes[node_id].attributes, strs))

\* A duplicate check that never finds the edge.
IsDuplicateConnection_Never(graph, conn) == FALSE

\* Whether add_connection finds an edge for conn's endpoints.
IsDuplicateConnection(graph, conn) ==
    HasEdge(graph, conn.source, conn.destination)

\* add_connection with the decode error handed to err_if_strict.
AddLoadedConnection_Loosened(is_strict, graph, loaded) ==
    IF ~loaded.ok
    THEN [res |-> ErrIfStrict(is_strict, "ConnectionLoadError").res,
          warned |-> ErrIfStrict(is_strict, "ConnectionLoadError").warned,
          strings |-> loaded.strings, objects_graph |-> graph]
    ELSE IF IsDuplicateConnection(graph, loaded.conn)
    THEN [res |-> ErrIfStrict(is_strict, "DuplicateConnection").res,
          warned |-> ErrIfStrict(is_strict, "DuplicateConnection").warned,
          strings |-> loaded.strings, objects_graph |-> graph]
    ELSE [res |-> ReturnedOk, warned |-> <<>>,
          strings |-> loaded.strings,
          objects_graph |-> GraphAddConnection(graph, loaded.conn)]

\* add_connection, after Connection::load_from_attributes.
AddLoadedConnection(is_strict, graph, loaded) ==
    IF ~loaded.ok
    THEN [res |-> ReturnedErr("ConnectionLoadError"), warned |-> <<>>,
          strings |-> loaded.strings, objects_graph |-> graph]
    ELSE IF IsDuplicateConnection(graph, loaded.conn)
    THEN [res |-> ErrIfStrict(is_strict, "DuplicateConnection").res,
          warned |-> ErrIfStrict(is_strict, "DuplicateConnection").warned,
          strings |-> loaded.strings, objects_graph |-> graph]
    ELSE [res |-> ReturnedOk, warned |-> <<>>,
          strings |-> loaded.strings,
          objects_graph |-> GraphAddConnection(graph, loaded.conn)]

\* LoaderImpl::add_connection.
AddConnection(is_strict, nodes, strs, graph, node_id, index) ==
    AddLoadedConnection(is_strict, graph,
        ConnectionLoadFromAttributes(nodes[node_id].attributes, strs, index))

\* The `/Documents/Document` loop's body after add_object returned Ok: the
\* metadata lookup, the subclass check and the scene data.  returned says
\* whether load_objects returns from inside the body.
InterpretDocument(is_strict, scns, node_id, scene_sym, added, scene) ==
    IF node_id \notin DOMAIN added.object_meta
    THEN [res |-> Panicked("Should never fail: add_object should have added the entry"),
          warned |-> <<>>, returned |-> TRUE, scenes |-> scns]
    ELSE IF added.object_meta[node_id].subclass # scene_sym
    THEN [res |-> ErrIfStrict(is_strict, "UnexpectedSubclass").res,
          warned |-> ErrIfStrict(is_strict, "UnexpectedSubclass").warned,
          returned |-> TRUE, scenes |-> scns]
    ELSE IF ~scene.ok
    THEN [res |-> ErrIfStrict(is_strict, "SceneLoadError").res,
          warned |-> ErrIfStrict(is_strict, "SceneLoadError").warned,
          returned |-> TRUE, scenes |-> scns]
    ELSE [res |-> ReturnedOk, warned |-> <<>>, returned |-> FALSE,
          scenes |-> IF node_id \in DOMAIN scns THEN scns
                     ELSE MapPut(scns, node_id, scene.data)]

\* The loop's body for a child named `Document`, after add_object.
DocumentAdded(is_strict, scns, added, interpreted) ==
    IF added.res.kind # "Ok"
    THEN [res |-> added.res, warned |-> added.warned, returned |-> TRUE,
          strings |-> added.strings, object_ids |-> added.object_ids,
          object_meta |-> added.object_meta, scenes |-> scns]
    ELSE [res |-> interpreted.res, warned |-> added.warned \o interpreted.warned,
          returned |-> interpreted.returned,
          strings |-> added.strings, object_ids |-> added.object_ids,
          object_meta |-> added.object_meta, scenes |-> interpreted.scenes]

\* The loop's body for a child named `Document`.
DocumentNode(is_strict, nodes, scns, node_id, scene_sym, added) ==
    DocumentAdded(is_strict, scns, added,
        InterpretDocument(is_strict, scns, node_id, scene_sym, added,
                          SceneNodeDataLoad(nodes, added.strings, node_id)))

\* A loop body that takes every child of `Documents` for a `Document`.
DocumentStep_AnyName(is_strict, nodes, strs, ids, metas, scns, node_id) ==
    DocumentNode(is_strict, nodes, scns, node_id,
                 InternerSym(strs, Str("Scene")),
                 AddObject(is_strict, nodes, strs, ids, metas, node_id))

\* The body of the `/Documents/Document` loop for one child of `Documents`.
DocumentStep(is_strict, nodes, strs, ids, metas, scns, node_id) ==
    IF nodes[node_id].name # InternerSym(strs, Str("Document"))
    THEN [res |-> ReturnedOk, warned |-> <<>>, returned |-> FALSE,
          strings |-> strs, object_ids |-> ids, object_meta |-> metas,
          scenes |-> scns]
    ELSE DocumentNode(is_strict, nodes, scns, node_id,
                      InternerSym(strs, Str("Scene")),
                      AddObject(is_strict, nodes, strs, ids, metas, node_id))

-----------------------------------------------------------------------------
(* load_document as a state machine.  pc is "load_objects" on entry,       *)
(* "objects_loop" and "documents_loop" inside load_objects' loops,         *)
(* "load_connections" once load_objects has returned Ok from inside,       *)
(* "connections_loop" inside load_connections' loop, "loaded" once         *)
(* load_connections has returned Ok from inside, "done" at the end.        *)

\* LoaderImpl::new: the arena of some file and empty tables.
Init ==
    /\ strict \in BOOLEAN
    /\ \E file \in Files :
         /\ arena = CoreArena(file)
         /\ strings = CoreStrings(file)
    /\ object_ids = EmptyMap
    /\ object_meta = EmptyMap
    /\ scenes = EmptyMap
    /\ objects_graph = <<>>
    /\ pc = "load_objects"
    /\ next_node_id = NoNode
    /\ conn_index = 0
    /\ warnings = <<>>
    /\ result = Running
    /\ NoWalk /\ NoSource /\ NoVisitor /\ NoValue

\* load_document returns the error (or unwinds from the panic) res.
Abort(res) ==
    /\ result' = res
    /\ pc' = "done"

\* A top-level node is missing: the error, or the early Ok(()) that leaves
\* the function for the place after.
Missing(missing, after) ==
    /\ warnings' = warnings \o missing.warned
    /\ IF missing.res.kind = "Ok"
       THEN pc' = after /\ result' = result
       ELSE Abort(missing.res)

\* A missing `Objects` that ends the whole load and not load_objects alone.
LoadObjectsFrom_SkipAll(objects_node_id) ==
    IF objects_node_id = NoNode
    THEN /\ Missing(ErrIfStrict(strict, "NodeNotFound(Objects)"), "loaded")
         /\ UNCHANGED next_node_id
    ELSE /\ next_node_id' = arena[objects_node_id].first_child
         /\ pc' = "objects_loop"
         /\ UNCHANGED <<warnings, result>>

LoadObjectsFrom(objects_node_id) ==
    IF objects_node_id = NoNode
    THEN /\ Missing(ErrIfStrict(strict, "NodeNotFound(Objects)"), "load_connections")
         /\ UNCHANGED next_node_id
    ELSE /\ next_node_id' = arena[objects_node_id].first_child
         /\ pc' = "objects_loop"
         /\ UNCHANGED <<warnings, result>>

\* load_objects up to its first loop: find `Objects`.
LoadObjects ==
    /\ pc = "load_objects"
    /\ LoadObjectsFrom(FindToplevel(arena, strings, Str("Objects")))
    /\ UNCHANGED outsideLoader
    /\ UNCHANGED <<strict, arena, strings, object_ids, object_meta, scenes,
                   objects_graph, conn_index>>

ObjectsLoopWith(added) ==
    /\ strings' = added.strings
    /\ object_ids' = added.object_ids
    /\ object_meta' = added.object_meta
    /\ warnings' = warnings \o added.warned
    /\ IF added.res.kind = "Ok"
       THEN /\ next_node_id' = arena[next_node_id].next_sibling
            /\ UNCHANGED <<pc, result>>
       ELSE /\ Abort(added.res)
            /\ UNCHANGED next_node_id

\* One turn of the `/Objects/*` loop.
ObjectsLoop ==
    /\ pc = "objects_loop"
    /\ next_node_id # NoNode
    /\ ObjectsLoopWith(AddObject(strict, arena, strings, object_ids, object_meta,
                                 next_node_id))
    /\ UNCHANGED outsideLoader
    /\ UNCHANGED <<strict, arena, scenes, objects_graph, conn_index>>

\* The second loop with an interner of its own for the names it compares.
LoadDocumentsFrom_OwnInterner(documents_node_id) ==
    IF documents_node_id = NoNode
    THEN /\ Missing(ErrIfStrict(strict, "NodeNotFound(Documents)"), "load_connections")
         /\ UNCHANGED <<strings, next_node_id>>
    ELSE /\ strings' = InternerAddAll(<<>>, <<Str("Document"), Str("Scene")>>)
         /\ next_node_id' = arena[documents_node_id].first_child
         /\ pc' = "documents_loop"
         /\ UNCHANGED <<warnings, result>>

LoadDocumentsFrom(documents_node_id) ==
    IF documents_node_id = NoNode
    THEN /\ Missing(ErrIfStrict(strict, "NodeNotFound(Documents)"), "load_connections")
         /\ UNCHANGED <<strings, next_node_id>>
    ELSE /\ strings' = InternerAddAll(strings, <<Str("Document"), Str("Scene")>>)
         /\ next_node_id' = arena[documents_node_id].first_child
         /\ pc' = "documents_loop"
         /\ UNCHANGED <<warnings, result>>

\* load_objects between its loops: find `Documents`, intern the names the
\* second loop compares.
LoadDocuments ==
    /\ pc = "objects_loop"
    /\ next_node_id = NoNode
    /\ LoadDocumentsFrom(FindToplevel(arena, strings, Str("Documents")))
    /\ UNCHANGED outsideLoader
    /\ UNCHANGED <<strict, arena, object_ids, object_meta, scenes,
                   objects_graph, conn_index>>

DocumentsLoopWith(step) ==
    /\ strings' = step.strings
    /\ object_ids' = step.object_ids
    /\ object_meta' = step.object_meta
    /\ scenes' = step.scenes
    /\ warnings' = warnings \o step.warned
    /\ IF ~step.returned
       THEN /\ next_node_id' = arena[next_node_id].next_sibling
            /\ UNCHANGED <<pc, result>>
       ELSE /\ UNCHANGED next_node_id
            /\ IF step.res.kind = "Ok"
               THEN pc' = "load_connections" /\ result' = result
               ELSE Abort(step.res)

\* One turn of the `/Documents/Document` loop.
DocumentsLoop ==
    /\ pc = "documents_loop"
    /\ next_node_id # NoNode
    /\ DocumentsLoopWith(DocumentStep(strict, arena, strings, object_ids,
                                      object_meta, scenes, next_node_id))
    /\ UNCHANGED outsideLoader
    /\ UNCHANGED <<strict, arena, objects_graph, conn_index>>

LoadConnectionsFrom(connections_node_id) ==
    IF connections_node_id = NoNode
    THEN /\ Missing(ErrIfStrict(strict, "NodeNotFound(Connections)"), "loaded")
         /\ UNCHANGED <<strings, next_node_id>>
    ELSE /\ strings' = InternerAdd(strings, Str("C"))
         /\ next_node_id' = arena[connections_node_id].first_child
         /\ pc' = "connections_loop"
         /\ UNCHANGED <<warnings, result>>

\* load_connections up to its loop: find `Connections`, intern `C`.
LoadConnections ==
    /\ pc = "load_connections" \/ (pc = "documents_loop" /\ next_node_id = NoNode)
    /\ LoadConnectionsFrom(FindToplevel(arena, strings, Str("Connections")))
    /\ conn_index' = 0
    /\ UNCHANGED outsideLoader
    /\ UNCHANGED <<strict, arena, object_ids, object_meta, scenes, objects_graph>>

\* A counter that stays where it is.
NextConnIndex_Stuck(index) == index

\* conn_index.checked_add(1)
NextConnIndex(index) == index + 1

\* Whether the loop hands the child to add_connection.
IsConnectionNode(nodes, strs, node_id) ==
    nodes[node_id].name = InternerSym(strs, Str("C"))

ConnectionsLoopWith(added) ==
    /\ strings' = added.strings
    /\ objects_graph' = added.objects_graph
    /\ warnings' = warnings \o added.warned
    /\ IF added.res.kind = "Ok"
       THEN /\ next_node_id' = arena[next_node_id].next_sibling
            /\ conn_index' = NextConnIndex(conn_index)
            /\ UNCHANGED <<pc, result>>
       ELSE /\ Abort(added.res)
            /\ UNCHANGED <<next_node_id, conn_index>>

\* The loop with a counter that counts the `C` children only.
ConnectionsLoop_CountC ==
    /\ pc = "connections_loop"
    /\ next_node_id # NoNode
    /\ IF IsConnectionNode(arena, strings, next_node_id)
       THEN ConnectionsLoopWith(AddConnection(strict, arena, strings, objects_graph,
                                              next_node_id, conn_index))
       ELSE /\ next_node_id' = arena[next_node_id].next_sibling
            /\ UNCHANGED <<conn_index, strings, objects_graph, warnings, pc, result>>
    /\ UNCHANGED outsideLoader
    /\ UNCHANGED <<strict, arena, object_ids, object_meta, scenes>>

\* One turn of the `/Connections/C` loop.
ConnectionsLoop ==
    /\ pc = "connections_loop"
    /\ next_node_id # NoNode
    /\ IF IsConnectionNode(arena, strings, next_node_id)
       THEN ConnectionsLoopWith(AddConnection(strict, arena, strings, objects_graph,
                                              next_node_id, conn_index))
       ELSE /\ next_node_id' = arena[next_node_id].next_sibling
            /\ conn_index' = NextConnIndex(conn_index)
            /\ UNCHANGED <<strings, objects_graph, warnings, pc, result>>
    /\ UNCHANGED outsideLoader
    /\ UNCHANGED <<strict, arena, object_ids, object_meta, scenes>>

\* load_document's end: Ok(Document::new(..)).
ReturnDocument ==
    /\ pc = "loaded" \/ (pc = "connections_loop" /\ next_node_id = NoNode)
    /\ result' = ReturnedOk
    /\ pc' = "done"
    /\ UNCHANGED outsideLoader
    /\ UNCHANGED <<strict, arena, strings, object_ids, object_meta, scenes,
                   objects_graph, next_node_id, conn_index, warnings>>

Next ==
    \/ LoadObjects
    \/ ObjectsLoop
    \/ LoadDocuments
    \/ DocumentsLoop
    \/ LoadConnections
    \/ ConnectionsLoop
    \/ ReturnDocument

Spec == Init /\ [][Next]_vars

-----------------------------------------------------------------------------
(* NodeId::first_node_by_path, applied to the arenas of small trees.       *)

\* No load is under way.
NoLoader ==
    /\ strict = FALSE
    /\ object_ids = EmptyMap
    /\ object_meta = EmptyMap
    /\ scenes = EmptyMap
    /\ objects_graph = <<>>
    /\ pc = "none"
    /\ next_node_id = NoNode
    /\ conn_index = 0
    /\ warnings = <<>>
    /\ result = Running

\* The node names of the trees and the components of the paths.
TreeNames == {Str("Model"), Str("Properties70")}

\* The depths of n nodes in depth-first order, the first a child of the root.
TreeDepths(n) ==
    { d \in [1..n -> 1..n] :
        /\ n > 0 => d[1] = 1
        /\ \A k \in 1..(n - 1) : d[k + 1] <= d[k] + 1 }

\* The trees of n nodes under the root, as the parser's sequence of nodes.
TreesOf(n) ==
    { [k \in 1..n |-> Ev(names[k], <<>>, depths[k])] :
        <<names, depths>> \in [1..n -> TreeNames] \X TreeDepths(n) }

TreeFiles == UNION { TreesOf(n) : n \in 0..MaxTreeNodes }

Paths == UNION { [1..n -> TreeNames] : n \in 0..MaxPath }

RECURSIVE FirstNodeByPathImpl(_, _, _, _)
RECURSIVE FirstNodeByPathFrom(_, _, _, _)
\* The loop's body after `.next()`: the `?` returns None, where nothing
\* matched, and the loop goes on from next otherwise.
FirstNodeByPathFrom(nodes, strs, next, rest) ==
    IF next = NoNode THEN NoNode ELSE FirstNodeByPathImpl(nodes, strs, next, rest)

\* NodeId::first_node_by_path_impl: Some(node id), or NoNode for None.
FirstNodeByPathImpl(nodes, strs, current, names) ==
    IF names = <<>> THEN current
    ELSE FirstNodeByPathFrom(nodes, strs,
             FirstOrNone(ChildrenByName(nodes, strs, current, Head(names))),
             Tail(names))

InitWalk ==
    /\ \E file \in TreeFiles :
         /\ arena = CoreArena(file)
         /\ strings = CoreStrings(file)
         /\ self_id \in 1..(Len(file) + 1)
    /\ path \in Paths
    /\ first_node = [kind |-> "none", id |-> NoNode]
    /\ NoLoader /\ NoSource /\ NoVisitor /\ NoValue

\* NodeId::first_node_by_path
FirstNodeByPath ==
    /\ first_node.kind = "none"
    /\ first_node' = [kind |-> "returned",
                      id |-> FirstNodeByPathImpl(arena, strings, self_id, path)]
    /\ UNCHANGED <<self_id, path, loaderVars, sourceVars, visitorVars, valueVars>>

NextWalk == FirstNodeByPath

SpecWalk == InitWalk /\ [][NextWalk]_vars

-----------------------------------------------------------------------------
(* ParserSource: a reader that knows the offset of the byte it returns     *)
(* next.  skip_distance is the trait's default method.                     *)

NoArena == arena = <<>> /\ strings = <<>>

Min(a, b) == IF a <= b THEN a ELSE b

\* u64::saturating_sub, as an Option.
SaturatingSub(a, b) == [some |-> TRUE, v |-> IF a >= b THEN a - b ELSE 0]

\* u64::checked_sub
CheckedSub(a, b) ==
    IF a >= b THEN [some |-> TRUE, v |-> a - b] ELSE [some |-> FALSE, v |-> 0]

\* The bytes the underlying reader has left.
Remaining == stream_len - stream_offset

\* The source's io::Read::read returned n bytes: the reader yielded them
\* and position() counts them.
Consume(n) ==
    /\ stream_offset' = stream_offset + n
    /\ position' = position + n

Trapped == source_call.res = "panic"

\* A skip that seeks the reader and leaves the cached position alone.
SkipDistance_Seek(distance, call) ==
    /\ stream_offset' = stream_offset + Min(distance, Remaining)
    /\ position' = position
    /\ source_call' = [call EXCEPT !.res = "Ok"]

\* ParserSource::skip_distance: io::copy of self.take(distance) into a sink.
\* It reads until the limit or the end of the stream and is Ok then; a read
\* of the reader that fails ends it with the error.
SkipDistance(distance, call) ==
    \E n \in 0..Min(distance, Remaining) :
        \E ok \in BOOLEAN :
            /\ ok => n = Min(distance, Remaining)
            /\ ~ok => n < distance
            /\ Consume(n)
            /\ source_call' = [call EXCEPT !.res = IF ok THEN "Ok" ELSE "Err"]

\* ParserSource::skip_to after the subtraction.
SkipToBy(pos, distance) ==
    IF ~distance.some
    THEN /\ source_call' = [op |-> "skip_to", arg |-> pos, res |-> "panic"]
         /\ UNCHANGED <<stream_offset, position>>
    ELSE SkipDistance(distance.v, [op |-> "skip_to", arg |-> pos, res |-> "Ok"])

\* ParserSource::skip_to
SkipTo(pos) == SkipToBy(pos, CheckedSub(pos, position))

InitSource ==
    /\ stream_len \in 0..MaxStream
    /\ stream_offset = 0
    /\ position = 0
    /\ source_call = NoCall
    /\ NoArena /\ NoLoader /\ NoWalk /\ NoVisitor /\ NoValue

outsideSource == <<loaderVars, walkVars, visitorVars, valueVars>>

\* io::Read::read into a buffer of len bytes: Ok(n) with n bytes of the
\* stream, n = 0 only for an empty buffer or at the end; or an error.
CallRead ==
    /\ ~Trapped
    /\ \E len \in 0..MaxStream :
         \/ \E n \in 0..Min(len, Remaining) :
              /\ n = 0 => (len = 0 \/ Remaining = 0)
              /\ Consume(n)
              /\ source_call' = [op |-> "read", arg |-> len, res |-> "Ok"]
         \/ /\ Consume(0)
            /\ source_call' = [op |-> "read", arg |-> len, res |-> "Err"]
    /\ UNCHANGED <<stream_len, outsideSource>>

CallSkipDistance ==
    /\ ~Trapped
    /\ \E distance \in 0..(MaxStream + 1) :
         SkipDistance(distance, [op |-> "skip_distance", arg |-> distance, res |-> "Ok"])
    /\ UNCHANGED <<stream_len, outsideSource>>

CallSkipTo ==
    /\ ~Trapped
    /\ \E pos \in 0..(MaxStream + 1) : SkipTo(pos)
    /\ UNCHANGED <<stream_len, outsideSource>>

NextSource == CallRead \/ CallSkipDistance \/ CallSkipTo

SpecSource == InitSource /\ [][NextSource]_vars

-----------------------------------------------------------------------------
(* Attribute visitors: the VisitAttribute trait, PrimitiveVisitor<T> and   *)
(* ArrayVisitor<Vec<T>>.                                                   *)

\* Result<_>: Ok(v) and Err(err).
Ok(v) == [ok |-> TRUE, v |-> v, err |-> [kind |-> "none", expected |-> "", got |-> ""]]

Err(err) == [ok |-> FALSE, v |-> 0, err |-> err]

\* DataError::UnexpectedAttribute(expected, got)
UnexpectedAttribute(expected, got) ==
    [kind |-> "UnexpectedAttribute", expected |-> expected, got |-> got]

\* An error an iterator's item carries.
ItemError(name) == [kind |-> name, expected |-> "", got |-> ""]

\* The types with an impl_visit_attribute_for_primitives! line.
PrimitiveTypes == {"bool", "i16", "i32", "i64", "f32", "f64"}

\* The types with an impl_visit_attribute_for_arrays! line.
ArrayTypes == {"bool", "i32", "i64", "f32", "f64"}

PrimitiveVisitor(ty) == [kind |-> "PrimitiveVisitor", ty |-> ty]

ArrayVisitor(ty) == [kind |-> "ArrayVisitor", ty |-> ty]

Visitors ==
    { PrimitiveVisitor(ty) : ty \in PrimitiveTypes }
      \cup { ArrayVisitor(ty) : ty \in ArrayTypes }

\* The callbacks of the trait.
VisitMethods ==
    { "visit_bool", "visit_i16", "visit_i32", "visit_i64", "visit_f32", "visit_f64",
      "visit_seq_bool", "visit_seq_i32", "visit_seq_i64", "visit_seq_f32",
      "visit_seq_f64" }

IsSeqMethod(method) ==
    method \in { "visit_seq_bool", "visit_seq_i32", "visit_seq_i64", "visit_seq_f32",
                 "visit_seq_f64" }

\* The type of the callback's argument (of its items, for an iterator).
MethodType(method) ==
    CASE method \in {"visit_bool", "visit_seq_bool"} -> "bool"
      [] method = "visit_i16" -> "i16"
      [] method \in {"visit_i32", "visit_seq_i32"} -> "i32"
      [] method \in {"visit_i64", "visit_seq_i64"} -> "i64"
      [] method \in {"visit_f32", "visit_seq_f32"} -> "f32"
      [] method \in {"visit_f64", "visit_seq_f64"} -> "f64"

\* Some values of each type.
ValuesOf(ty) ==
    CASE ty = "bool" -> {FALSE, TRUE}
      [] ty \in {"i16", "i32", "i64"} -> {-1, 7}
      [] ty \in {"f32", "f64"} -> {"0.5", "NaN"}

\* The items an iterator of Result<ty> yields.
ItemsOf(ty) ==
    { Ok(v) : v \in ValuesOf(ty) } \cup { Err(ItemError(e)) : e \in {"e1", "e2"} }

IteratorsOf(ty) == UNION { [1..n -> ItemsOf(ty)] : n \in 0..MaxItems }

\* What a callback can be given.
ArgumentsOf(method) ==
    IF IsSeqMethod(method) THEN IteratorsOf(MethodType(method))
    ELSE ValuesOf(MethodType(method))

\* The trait's default callbacks: the name each gives the visited type.
DefaultGot(method) ==
    CASE method = "visit_bool" -> "boolean"
      [] method = "visit_i16" -> "i16"
      [] method = "visit_i32" -> "i32"
      [] method = "visit_i64" -> "i64"
      [] method = "visit_f32" -> "f32"
      [] method = "visit_f64" -> "f64"
      [] method = "visit_seq_bool" -> "boolean array"
      [] method = "visit_seq_i32" -> "i32 array"
      [] method = "visit_seq_i64" -> "i64 array"
      [] method = "visit_seq_f32" -> "f32 array"
      [] method = "visit_seq_f64" -> "f64 array"

\* VisitAttribute::expecting of the two visitor types.
Expecting(v) ==
    CASE v = PrimitiveVisitor("bool") -> "single boolean"
      [] v = PrimitiveVisitor("i16") -> "single i16"
      [] v = PrimitiveVisitor("i32") -> "single i32"
      [] v = PrimitiveVisitor("i64") -> "single i64"
      [] v = PrimitiveVisitor("f32") -> "single f32"
      [] v = PrimitiveVisitor("f64") -> "single f64"
      [] v = ArrayVisitor("bool") -> "boolean array"
      [] v = ArrayVisitor("i32") -> "i32 array"
      [] v = ArrayVisitor("i64") -> "i64 array"
      [] v = ArrayVisitor("f32") -> "f32 array"
      [] v = ArrayVisitor("f64") -> "f64 array"

\* A macro line that names the callback of the next wider type for i16.
OverriddenMethod_I16AsI32(v) ==
    CASE v = PrimitiveVisitor("bool") -> "visit_bool"
      [] v = PrimitiveVisitor("i16") -> "visit_i32"
      [] v = PrimitiveVisitor("i32") -> "visit_i32"
      [] v = PrimitiveVisitor("i64") -> "visit_i64"
      [] v = PrimitiveVisitor("f32") -> "visit_f32"
      [] v = PrimitiveVisitor("f64") -> "visit_f64"
      [] v = ArrayVisitor("bool") -> "visit_seq_bool"
      [] v = ArrayVisitor("i32") -> "visit_seq_i32"
      [] v = ArrayVisitor("i64") -> "visit_seq_i64"
      [] v = ArrayVisitor("f32") -> "visit_seq_f32"
      [] v = ArrayVisitor("f64") -> "visit_seq_f64"

\* The callback each visitor overrides ($method_name of its macro line).
OverriddenMethod(v) ==
    CASE v = PrimitiveVisitor("bool") -> "visit_bool"
      [] v = PrimitiveVisitor("i16") -> "visit_i16"
      [] v = PrimitiveVisitor("i32") -> "visit_i32"
      [] v = PrimitiveVisitor("i64") -> "visit_i64"
      [] v = PrimitiveVisitor("f32") -> "visit_f32"
      [] v = PrimitiveVisitor("f64") -> "visit_f64"
      [] v = ArrayVisitor("bool") -> "visit_seq_bool"
      [] v = ArrayVisitor("i32") -> "visit_seq_i32"
      [] v = ArrayVisitor("i64") -> "visit_seq_i64"
      [] v = ArrayVisitor("f32") -> "visit_seq_f32"
      [] v = ArrayVisitor("f64") -> "visit_seq_f64"

\* A collect that goes through all the items and keeps the error of the
\* last item that is an Err.
Collect_LastError(items, collected) ==
    IF \A i \in 1..Len(items) : items[i].ok
    THEN Ok(collected \o [i \in 1..Len(items) |-> items[i].v])
    ELSE Err(items[CHOOSE i \in 1..Len(items) :
                     /\ ~items[i].ok
                     /\ \A j \in (i + 1)..Len(items) : items[j].ok].err)

\* iter.collect::<Result<Vec<_>>>(): the items' values, or the error of the
\* first item that is an Err.
RECURSIVE Collect(_, _)
Collect(items, collected) ==
    IF items = <<>> THEN Ok(collected)
    ELSE IF ~Head(items).ok THEN Err(Head(items).err)
    ELSE Collect(Tail(items), Append(collected, Head(items).v))

\* The callback method of visitor v, called with arg.
Visit(v, method, arg) ==
    IF method # OverriddenMethod(v)
    THEN Err(UnexpectedAttribute(Expecting(v), DefaultGot(method)))
    ELSE IF v.kind = "PrimitiveVisitor" THEN Ok(arg)
    ELSE Collect(arg, <<>>)

InitVisitor ==
    /\ visitor \in Visitors
    /\ visited = [method |-> "none"]
    /\ NoArena /\ NoLoader /\ NoWalk /\ NoSource /\ NoValue

\* One callback is called on the visitor, which it consumes.
CallVisit ==
    /\ visited.method = "none"
    /\ \E method \in VisitMethods :
         \E arg \in ArgumentsOf(method) :
             visited' = [method |-> method, arg |-> arg,
                         ret |-> Visit(visitor, method, arg)]
    /\ UNCHANGED <<visitor, loaderVars, walkVars, sourceVars, valueVars>>

NextVisitor == CallVisit

SpecVisitor == InitVisitor /\ [][NextVisitor]_vars

-----------------------------------------------------------------------------
(* AttributeValue and DirectAttributeValue: the two enums have the same    *)
(* variants, type_() and getters.                                          *)

Variants ==
    { "Bool", "I16", "I32", "I64", "F32", "F64", "ArrBool", "ArrI32", "ArrI64",
      "ArrF32", "ArrF64", "String", "Binary" }

\* Some payloads of each variant.
PayloadsOf(variant) ==
    CASE variant = "Bool" -> ValuesOf("bool")
      [] variant \in {"I16", "I32", "I64"} -> ValuesOf("i32")
      [] variant \in {"F32", "F64"} -> ValuesOf("f32")
      [] variant = "ArrBool" -> {<<>>, <<TRUE, FALSE>>}
      [] variant \in {"ArrI32", "ArrI64"} -> {<<>>, <<7, -1>>}
      [] variant \in {"ArrF32", "ArrF64"} -> {<<>>, <<"0.5", "NaN">>}
      [] variant = "String" -> {"", "Lcl Translation"}
      [] variant = "Binary" -> {<<>>, <<0, 255>>}

AttributeValues ==
    UNION { { [enum |-> e, variant |-> v, payload |-> p] :
                <<e, p>> \in {"AttributeValue", "DirectAttributeValue"} \X PayloadsOf(v) } :
            v \in Variants }

\* Option<_>
Some(v) == [some |-> TRUE, v |-> v]

None == [some |-> FALSE, v |-> 0]

\* A match with the arm of one array variant copied to the next.
TypeOf_ArrI64AsArrI32(val) ==
    IF val.variant = "ArrI64" THEN "ArrI32" ELSE val.variant

\* type_(): the AttributeType of each variant.
TypeOf(val) ==
    CASE val.variant = "Bool" -> "Bool"
      [] val.variant = "I16" -> "I16"
      [] val.variant = "I32" -> "I32"
      [] val.variant = "I64" -> "I64"
      [] val.variant = "F32" -> "F32"
      [] val.variant = "F64" -> "F64"
      [] val.variant = "ArrBool" -> "ArrBool"
      [] val.variant = "ArrI32" -> "ArrI32"
      [] val.variant = "ArrI64" -> "ArrI64"
      [] val.variant = "ArrF32" -> "ArrF32"
      [] val.variant = "ArrF64" -> "ArrF64"
      [] val.variant = "String" -> "String"
      [] val.variant = "Binary" -> "Binary"

\* The getters: $opt_getter of each impl_val_getter! / impl_ref_getter!.
Getters ==
    { "get_bool", "get_i16", "get_i32", "get_i64", "get_f32", "get_f64",
      "get_arr_bool", "get_arr_i32", "get_arr_i64", "get_arr_f32", "get_arr_f64",
      "get_string", "get_binary" }

\* $variant of the macro call that defines the getter.
GetterVariant(name) ==
    CASE name = "get_bool" -> "Bool"
      [] name = "get_i16" -> "I16"
      [] name = "get_i32" -> "I32"
      [] name = "get_i64" -> "I64"
      [] name = "get_f32" -> "F32"
      [] name = "get_f64" -> "F64"
      [] name = "get_arr_bool" -> "ArrBool"
      [] name = "get_arr_i32" -> "ArrI32"
      [] name = "get_arr_i64" -> "ArrI64"
      [] name = "get_arr_f32" -> "ArrF32"
      [] name = "get_arr_f64" -> "ArrF64"
      [] name = "get_string" -> "String"
      [] name = "get_binary" -> "Binary"

\* $opt_getter: Some(payload) in the arm of $variant, None in the other.
GetOpt(val, variant) ==
    IF val.variant = variant THEN Some(val.payload) ELSE None

\* $res_getter: Ok(payload) in the arm of $variant, Err(self.type_()) in
\* the other.
GetOrType(val, variant) ==
    IF val.variant = variant THEN Ok(val.payload) ELSE Err(TypeOf(val))

InitValue ==
    /\ attribute \in AttributeValues
    /\ getter = [name |-> "none"]
    /\ NoArena /\ NoLoader /\ NoWalk /\ NoSource /\ NoVisitor

\* get_V(), get_V_or_type() and type_() are called on the value.
CallGetter ==
    /\ getter.name = "none"
    /\ \E name \in Getters :
         getter' = [name |-> name,
                    opt |-> GetOpt(attribute, GetterVariant(name)),
                    res |-> GetOrType(attribute, GetterVariant(name)),
                    type |-> TypeOf(attribute)]
    /\ UNCHANGED <<attribute, loaderVars, walkVars, sourceVars, visitorVars>>

NextValue == CallGetter

SpecValue == InitValue /\ [][NextValue]_vars

-----------------------------------------------------------------------------
(* What a file holds, read off the arena: the vocabulary of the            *)
(* properties below.                                                       *)

Range(seq) == { seq[k] : k \in 1..Len(seq) }

Done == pc = "done"

\* load_document returned Ok(Document).
Returned == Done /\ result = ReturnedOk

NameOf(n) == strings[arena[n].name]

HasToplevel(name) == FindToplevel(arena, strings, Str(name)) # NoNode

ToplevelChildren(name) ==
    IF HasToplevel(name)
    THEN Children(arena, FindToplevel(arena, strings, Str(name)))
    ELSE <<>>

RootOnly == Len(arena) = 1

\* The `Document` children of `Documents`, in order.
DocumentNodes ==
    SelectSeq(ToplevelChildren("Documents"), LAMBDA n : NameOf(n) = Str("Document"))

\* The object nodes in the order of passes A and B.
ObjectNodes == ToplevelChildren("Objects") \o DocumentNodes

Decodes(n) == ObjectMetaFromAttributes(arena[n].attributes, strings).ok

IdOf(n) == arena[n].attributes[1].i

SubclassOf(n) == BeforeSep(arena[n].attributes[2].s)

SceneLoads(n) == SceneNodeDataLoad(arena, strings, n).ok

\* Positions i < j of two decodable object nodes with one id.
DuplicateIdPairs ==
    { t \in (1..Len(ObjectNodes)) \X (1..Len(ObjectNodes)) :
        /\ t[1] < t[2]
        /\ Decodes(ObjectNodes[t[1]]) /\ Decodes(ObjectNodes[t[2]])
        /\ IdOf(ObjectNodes[t[1]]) = IdOf(ObjectNodes[t[2]]) }

\* The object node at position j is the first one with its id.
FirstWithId(j) == \A i \in 1..(j - 1) : <<i, j>> \notin DuplicateIdPairs

\* All the children of `Connections`, in order.
ConnectionChildren == ToplevelChildren("Connections")

IsC(k) == NameOf(ConnectionChildren[k]) = Str("C")

\* The connection the k-th child of `Connections` decodes to, with the
\* 0-based position among all the children as its index.
Decoded(k) ==
    ConnectionLoadFromAttributes(arena[ConnectionChildren[k]].attributes, strings, k - 1)

CDecodes(k) == IsC(k) /\ Decoded(k).ok

SameEnds(j, k) ==
    /\ Decoded(j).conn.source = Decoded(k).conn.source
    /\ Decoded(j).conn.destination = Decoded(k).conn.destination

\* Positions j < k of two decodable `C` children with one (source, destination).
DuplicateConnectionPairs ==
    { t \in (1..Len(ConnectionChildren)) \X (1..Len(ConnectionChildren)) :
        /\ t[1] < t[2]
        /\ CDecodes(t[1]) /\ CDecodes(t[2])
        /\ SameEnds(t[1], t[2]) }

FirstSeen(k) ==
    CDecodes(k) /\ \A j \in 1..(k - 1) : <<j, k>> \notin DuplicateConnectionPairs

AllCDecode == \A k \in 1..Len(ConnectionChildren) : IsC(k) => CDecodes(k)

\* Passes A and B meet no anomaly.
ObjectsClean ==
    /\ HasToplevel("Objects") /\ HasToplevel("Documents")
    /\ \A j \in 1..Len(ObjectNodes) : Decodes(ObjectNodes[j])
    /\ DuplicateIdPairs = {}
    /\ \A j \in 1..Len(DocumentNodes) :
         SubclassOf(DocumentNodes[j]) = Str("Scene") /\ SceneLoads(DocumentNodes[j])

\* Pass C meets no anomaly.
ConnectionsClean ==
    /\ HasToplevel("Connections")
    /\ AllCDecode
    /\ DuplicateConnectionPairs = {}

EdgeEndsKnown(conn) ==
    /\ conn.source \in DOMAIN object_ids \cup {0}
    /\ conn.destination \in DOMAIN object_ids \cup {0}

-----------------------------------------------------------------------------
\* C1: in every Document load_document returns, in either mode, both ends
\* of every edge of the objects graph are keys of the object-id index or
\* the implicit root 0.
C1_EdgeEndsRegistered ==
    Returned => \A k \in 1..Len(objects_graph) : EdgeEndsKnown(objects_graph[k])

-----------------------------------------------------------------------------
\* The later node of every pair of duplicates is left out and the id maps
\* to the first node that has it.
FirstObjectWins ==
    \A t \in DuplicateIdPairs :
        /\ IdOf(ObjectNodes[t[2]]) \in DOMAIN object_ids
        /\ \A id \in DOMAIN object_ids : object_ids[id] # ObjectNodes[t[2]]
        /\ ObjectNodes[t[2]] \notin DOMAIN object_meta
        /\ FirstWithId(t[1]) =>
             object_ids[IdOf(ObjectNodes[t[1]])] = ObjectNodes[t[1]]

\* C2: for an arena with two object nodes of one object id (children of
\* `Objects` or `Document` children of `Documents`) and no other anomaly:
\* a strict load fails with the duplicate-ID error; a non-strict load
\* returns a Document in which the id maps to the first node and the second
\* node is in neither the object-id index nor the object-meta map.
C2_DuplicateObjectId ==
    (Done /\ DuplicateIdPairs # {} /\ ConnectionsClean
          /\ HasToplevel("Objects") /\ HasToplevel("Documents")
          /\ (\A j \in 1..Len(ObjectNodes) : Decodes(ObjectNodes[j]))
          /\ (\A j \in 1..Len(DocumentNodes) :
                SubclassOf(DocumentNodes[j]) = Str("Scene") /\ SceneLoads(DocumentNodes[j])))
    => IF strict
       THEN result = ReturnedErr("DuplicateObjectId")
       ELSE result = ReturnedOk /\ FirstObjectWins

-----------------------------------------------------------------------------
\* The graph holds, for every (source, destination) of a decodable `C`
\* child, the connection of the first such child and nothing else.
GraphIsFirstSeen ==
    /\ Range(objects_graph) =
         { Decoded(k).conn : k \in { j \in 1..Len(ConnectionChildren) : FirstSeen(j) } }
    /\ \A i, j \in 1..Len(objects_graph) :
         (/\ objects_graph[i].source = objects_graph[j].source
          /\ objects_graph[i].destination = objects_graph[j].destination) => i = j

\* The position of the first `C` child that repeats an earlier one.
FirstDuplicatePosition ==
    CHOOSE k \in { t[2] : t \in DuplicateConnectionPairs } :
        \A t \in DuplicateConnectionPairs : k <= t[2]

\* No error precedes the first duplicate connection.
CleanBeforeDuplicate ==
    /\ ObjectsClean
    /\ \A k \in 1..(FirstDuplicatePosition - 1) : IsC(k) => CDecodes(k)

\* C3 as stated: for an arena whose `Connections` has two decodable `C`
\* children with one (source, destination): a strict load fails with the
\* duplicate-connection error; the graph a non-strict load returns holds one
\* edge per (source, destination), the first seen, with (s, d) and (d, s)
\* both present.
C3_DuplicateConnection ==
    (Done /\ DuplicateConnectionPairs # {})
    => IF strict
       THEN result = ReturnedErr("DuplicateConnection")
       ELSE result = ReturnedOk => GraphIsFirstSeen

\* C3 amended: a strict load of such an arena fails, and with the
\* duplicate-connection error when no other error precedes the later `C`
\* child (`Objects` and `Documents` are present and free of anomalies and
\* every `C` child before it decodes); the non-strict part is as stated.
C3_DuplicateConnectionAmended ==
    (Done /\ DuplicateConnectionPairs # {})
    => IF strict
       THEN /\ result.kind = "Err"
            /\ CleanBeforeDuplicate => result = ReturnedErr("DuplicateConnection")
       ELSE result = ReturnedOk => GraphIsFirstSeen

\* A non-strict load returned a graph of two edges from three `C` children,
\* two of them with one (source, destination) and different edge payloads.
C3_Witness ==
    /\ Returned /\ ~strict
    /\ Len(objects_graph) = 2
    /\ \E t \in DuplicateConnectionPairs :
         Decoded(t[1]).conn.edge # Decoded(t[2]).conn.edge

-----------------------------------------------------------------------------
NonCriticalErrors ==
    { "NodeNotFound(Objects)", "NodeNotFound(Documents)", "NodeNotFound(Connections)",
      "ObjectLoadError", "DuplicateObjectId", "UnexpectedSubclass", "SceneLoadError",
      "DuplicateConnection" }

\* C4: when every `C` child decodes, a non-strict load returns a Document
\* whatever non-critical anomalies the arena holds; a strict load returns a
\* non-critical error, and no Document, exactly when there is an anomaly.
C4_NonStrictLoads ==
    (Done /\ AllCDecode)
    => IF strict
       THEN IF ObjectsClean /\ ConnectionsClean
            THEN result = ReturnedOk
            ELSE result.kind = "Err" /\ result.err \in NonCriticalErrors
       ELSE result = ReturnedOk

-----------------------------------------------------------------------------
\* C5: for the arena of the root node alone, a non-strict load returns a
\* Document with an empty object-id index, object-meta map, scenes map and
\* objects graph; a strict load fails with the node-not-found error that
\* names `Objects`.
C5_RootOnly ==
    (Done /\ RootOnly)
    => IF strict
       THEN result = ReturnedErr("NodeNotFound(Objects)")
       ELSE /\ result = ReturnedOk
            /\ DOMAIN object_ids = {} /\ DOMAIN object_meta = {}
            /\ DOMAIN scenes = {} /\ objects_graph = <<>>

C5_Witness == Done /\ RootOnly /\ ~strict /\ result = ReturnedOk

-----------------------------------------------------------------------------
\* C6: at every point of a load the object-id index is injective, its
\* values are exactly the keys of the object-meta map, each entry's
\* metadata carries the id that maps to it with its three strings interned,
\* and the !meta_dup assertion has not failed.
C6_IndexAndMetaAgree ==
    /\ \A a, b \in DOMAIN object_ids : object_ids[a] = object_ids[b] => a = b
    /\ { object_ids[a] : a \in DOMAIN object_ids } = DOMAIN object_meta
    /\ \A a \in DOMAIN object_ids :
         /\ object_meta[object_ids[a]].id = a
         /\ { object_meta[object_ids[a]].name, object_meta[object_ids[a]].class,
              object_meta[object_ids[a]].subclass } \subseteq 1..Len(strings)
    /\ result # Panicked("assertion failed: !meta_dup")

\* Two objects are registered and a third node with a taken id was dropped.
C6_Witness ==
    /\ Cardinality(DOMAIN object_ids) = 2
    /\ "DuplicateObjectId" \in Range(warnings)

-----------------------------------------------------------------------------
\* The position in ObjectNodes of the j-th `Document` node.
DocumentPosition(j) == Len(ToplevelChildren("Objects")) + j

\* C7: a non-strict load of an arena that has `Documents` registers every
\* `Document` child of it that decodes and is the first node with its id,
\* also when the root has no `Objects` child.
C7_DocumentsWithoutObjects ==
    (Returned /\ ~strict /\ HasToplevel("Documents"))
    => \A j \in 1..Len(DocumentNodes) :
         (Decodes(DocumentNodes[j]) /\ FirstWithId(DocumentPosition(j)))
         => /\ DocumentNodes[j] \in DOMAIN object_meta
            /\ IdOf(DocumentNodes[j]) \in DOMAIN object_ids
            /\ object_ids[IdOf(DocumentNodes[j])] = DocumentNodes[j]

-----------------------------------------------------------------------------
\* The `Document` nodes that are to have scene data: decodable, first with
\* their id, of subclass `Scene`, with loadable scene data.
SceneNodes ==
    { DocumentNodes[j] : j \in { i \in 1..Len(DocumentNodes) :
        /\ Decodes(DocumentNodes[i])
        /\ FirstWithId(DocumentPosition(i))
        /\ SubclassOf(DocumentNodes[i]) = Str("Scene")
        /\ SceneLoads(DocumentNodes[i]) } }

\* C8: in every Document a non-strict load returns (here: of an arena that
\* has `Objects`, so that pass B is entered), the keys of Scenes are exactly
\* the `Document` nodes of subclass `Scene` whose scene data loads, whatever
\* the siblings before them.
C8_ScenesKeys ==
    (Returned /\ ~strict /\ HasToplevel("Objects")) => DOMAIN scenes = SceneNodes

-----------------------------------------------------------------------------
\* C9: the index of every edge is the 0-based position, among all the
\* children of `Connections`, of the `C` child it was decoded from; the
\* counter is the position of the loop's cursor, so a child that is not a
\* `C` advances it and adds no edge.
C9_IndexIsSiblingPosition ==
    /\ (pc = "connections_loop" /\ next_node_id # NoNode)
         => /\ conn_index + 1 <= Len(ConnectionChildren)
            /\ ConnectionChildren[conn_index + 1] = next_node_id
    /\ \A k \in 1..Len(objects_graph) :
         /\ objects_graph[k].index + 1 \in 1..Len(ConnectionChildren)
         /\ CDecodes(objects_graph[k].index + 1)
         /\ Decoded(objects_graph[k].index + 1).conn = objects_graph[k]

\* An edge was added from a `C` child that follows a child of another name.
C9_Witness ==
    \E k \in 1..Len(objects_graph) :
        \E j \in 1..objects_graph[k].index : ~IsC(j)

-----------------------------------------------------------------------------
\* C10: after any prefix of pass C the edges of the graph, in insertion
\* order, have strictly increasing indices, all below the counter, so that
\* an edge inserted later gets a larger index than every edge before it.
C10_IndicesIncrease ==
    /\ \A i, j \in 1..Len(objects_graph) :
         i < j => objects_graph[i].index < objects_graph[j].index
    /\ \A i \in 1..Len(objects_graph) : objects_graph[i].index < conn_index

\* Two edges are in the graph and a duplicate was dropped between them.
C10_Witness ==
    /\ Len(objects_graph) = 2
    /\ "DuplicateConnection" \in Range(warnings)
    /\ objects_graph[2].index = objects_graph[1].index + 2

-----------------------------------------------------------------------------
\* The first child of node n whose name has the contents name, read off the
\* parent links (sibling order is the order of the ids); NoNode if none.
FirstNamed(n, name) ==
    LET named == { c \in 1..Len(arena) :
                     arena[c].parent = n /\ strings[arena[c].name] = name }
    IN IF named = {} THEN NoNode ELSE CHOOSE c \in named : \A e \in named : c <= e

\* The node the repeated walk stands on after k components of path, NoNode
\* once a level had no match.
RECURSIVE WalkAfter(_)
WalkAfter(k) ==
    IF k = 0 THEN self_id
    ELSE IF WalkAfter(k - 1) = NoNode THEN NoNode
    ELSE FirstNamed(WalkAfter(k - 1), path[k])

\* C11: first_node_by_path(self, path) is the node reached by taking, at
\* each level, the first child with the component's name; it is None
\* exactly when some level of that walk has no such child, and it is self
\* for the empty path.
C11_FirstNodeByPath ==
    first_node.kind = "returned"
    => /\ first_node.id = WalkAfter(Len(path))
       /\ first_node.id = NoNode
            <=> \E k \in 1..Len(path) :
                  /\ WalkAfter(k - 1) # NoNode
                  /\ FirstNamed(WalkAfter(k - 1), path[k]) = NoNode
       /\ path = <<>> => first_node.id = self_id

\* The walk returned None at the second level, under the first match of the
\* first level, though a later match of the first level has such a child.
C11_Witness ==
    /\ first_node = [kind |-> "returned", id |-> NoNode]
    /\ Len(path) = 2
    /\ \E a, b \in 1..Len(arena) :
         /\ arena[a].parent = self_id /\ strings[arena[a].name] = path[1]
         /\ arena[b].parent = a /\ strings[arena[b].name] = path[2]

-----------------------------------------------------------------------------
\* C12: a call skip_to(pos) with pos < position() traps and consumes no
\* byte; with pos >= position() it does not trap, and with pos = position()
\* it consumes nothing.
C12_SkipToBackwardTraps ==
    [][source_call'.op = "skip_to"
       => /\ source_call'.arg < position
               => /\ source_call'.res = "panic"
                  /\ stream_offset' = stream_offset /\ position' = position
          /\ source_call'.arg >= position => source_call'.res # "panic"
          /\ source_call'.arg = position
               => stream_offset' = stream_offset /\ position' = position]_vars

\* skip_to trapped on a target behind the position, after bytes were read.
C12_Witness ==
    /\ source_call.op = "skip_to" /\ source_call.res = "panic"
    /\ source_call.arg < position
    /\ position = stream_offset

-----------------------------------------------------------------------------
\* C13: over every sequence of read, skip_distance and skip_to calls,
\* position() never decreases and is the number of bytes the reader has
\* yielded so far.
C13_PositionMonotonic ==
    /\ [](position = stream_offset)
    /\ [][position' >= position]_vars

\* skip_to moved the source to a position inside the stream.
C13_Witness ==
    /\ source_call = [op |-> "skip_to", arg |-> position, res |-> "Ok"]
    /\ position >= 2 /\ position < stream_len
    /\ position = stream_offset

-----------------------------------------------------------------------------
\* The type a name stands for: whether it is an array and of what.
NamedType(name) ==
    CASE name \in {"boolean", "boolean array"} -> "bool"
      [] name \in {"i16"} -> "i16"
      [] name \in {"i32", "i32 array"} -> "i32"
      [] name \in {"i64", "i64 array"} -> "i64"
      [] name \in {"f32", "f32 array"} -> "f32"
      [] name \in {"f64", "f64 array"} -> "f64"
      [] OTHER -> "unknown"

NamesArray(name) ==
    name \in {"boolean array", "i32 array", "i64 array", "f32 array", "f64 array"}

\* The callback is the one of the visitor's own type.
OwnCallback ==
    /\ IsSeqMethod(visited.method) <=> visitor.kind = "ArrayVisitor"
    /\ MethodType(visited.method) = visitor.ty

\* C14: a PrimitiveVisitor<T> or ArrayVisitor<Vec<T>> returns Ok from no
\* callback but the one of its own type (a primitive visitor returns the
\* value it was given there), and each of the other ten callbacks returns
\* UnexpectedAttribute(expected, got) with the visitor's expecting() string
\* and a name of the type visited.
C14_UnexpectedAttribute ==
    visited.method # "none"
    => IF OwnCallback
       THEN /\ visitor.kind = "PrimitiveVisitor" => visited.ret = Ok(visited.arg)
            /\ visited.ret.err.kind # "UnexpectedAttribute"
       ELSE /\ ~visited.ret.ok
            /\ visited.ret.err.kind = "UnexpectedAttribute"
            /\ visited.ret.err.expected = Expecting(visitor)
            /\ NamedType(visited.ret.err.got) = MethodType(visited.method)
            /\ NamesArray(visited.ret.err.got) <=> IsSeqMethod(visited.method)

\* An i32 visitor was given an i32 array and returned the typed error.
C14_Witness ==
    /\ visitor = PrimitiveVisitor("i32")
    /\ visited.method = "visit_seq_i32"
    /\ visited.ret = Err(UnexpectedAttribute("single i32", "i32 array"))

-----------------------------------------------------------------------------
\* The getter that is named after each variant.
NamedAfter(variant) ==
    CASE variant = "Bool" -> "get_bool"
      [] variant = "I16" -> "get_i16"
      [] variant = "I32" -> "get_i32"
      [] variant = "I64" -> "get_i64"
      [] variant = "F32" -> "get_f32"
      [] variant = "F64" -> "get_f64"
      [] variant = "ArrBool" -> "get_arr_bool"
      [] variant = "ArrI32" -> "get_arr_i32"
      [] variant = "ArrI64" -> "get_arr_i64"
      [] variant = "ArrF32" -> "get_arr_f32"
      [] variant = "ArrF64" -> "get_arr_f64"
      [] variant = "String" -> "get_string"
      [] variant = "Binary" -> "get_binary"

-----------------------------------------------------------------------------
\* C16: the lookup marked "Should never fail" in load_objects never fails:
\* in both modes, after add_object returned Ok for a `Document` node the
\* object-meta map has an entry for the node, also when add_object ignored
\* an error.
C16_LookupNeverFails ==
    result # Panicked("Should never fail: add_object should have added the entry")

-----------------------------------------------------------------------------
IsPrefix(short, long) ==
    Len(short) <= Len(long) /\ SubSeq(long, 1, Len(short)) = short

\* The number of strings the interner held when the arena was built: the
\* names of the nodes.
NodeNameCount == Cardinality({ arena[n].name : n \in 1..Len(arena) })

\* C17 as stated: no step of the loader changes a node record, and the
\* string interner holds after the passes what it held when the arena was
\* built.
C17_ArenaUntouched ==
    [][arena' = arena /\ strings' = strings]_vars

\* C17 amended: no step of the loader changes a node record; the interner
\* only grows, every symbol it had keeps its string.
C17_ArenaUntouchedAmended ==
    [][arena' = arena /\ IsPrefix(strings, strings')]_vars

\* A load returned with objects registered and an interner that holds more
\* strings than the nodes have names.
C17_Witness ==
    /\ Returned
    /\ DOMAIN object_ids # {}
    /\ Len(strings) > NodeNameCount

-----------------------------------------------------------------------------
\* The loop over the children of `Objects` has run to its end.
ObjectsPassDone ==
    /\ HasToplevel("Objects")
    /\ \/ pc = "objects_loop" /\ next_node_id = NoNode
       \/ pc \in {"documents_loop", "load_connections", "connections_loop", "loaded"}
       \/ Returned

\* The children of `Documents` with a name other than `Document`.
OtherDocumentsChildren ==
    { n \in Range(ToplevelChildren("Documents")) : NameOf(n) # Str("Document") }

\* What one turn of each loop does with the child it stands on.
FilteredStep ==
    /\ (pc = "objects_loop" /\ next_node_id # NoNode
          /\ Decodes(next_node_id) /\ IdOf(next_node_id) \notin DOMAIN object_ids)
       => (/\ next_node_id \in DOMAIN object_meta'
           /\ object_ids'[IdOf(next_node_id)] = next_node_id)
    /\ (pc = "documents_loop" /\ next_node_id # NoNode
          /\ NameOf(next_node_id) # Str("Document"))
       => UNCHANGED <<object_ids, object_meta, scenes>>
    /\ (pc = "connections_loop" /\ next_node_id # NoNode
          /\ NameOf(next_node_id) # Str("C"))
       => UNCHANGED objects_graph

\* C18: every child of `Objects` is handed to object registration whatever
\* its name (one that decodes and is the first with its id is registered by
\* its turn of the loop, and all of them once the loop is through); a child
\* of `Documents` not named `Document` leaves the index, the meta map and
\* the scenes as they are and is never in them; a child of `Connections`
\* not named `C` adds no edge; a name is the loop's name exactly when its
\* symbol is the symbol of that name.
C18_ChildFiltering ==
    /\ [][FilteredStep]_vars
    /\ [](ObjectsPassDone
           => \A j \in 1..Len(ToplevelChildren("Objects")) :
                (Decodes(ObjectNodes[j]) /\ FirstWithId(j))
                => ObjectNodes[j] \in DOMAIN object_meta)
    /\ [](/\ DOMAIN object_meta \cap OtherDocumentsChildren = {}
           /\ DOMAIN scenes \cap OtherDocumentsChildren = {}
           /\ \A k \in 1..Len(objects_graph) : IsC(objects_graph[k].index + 1))
    /\ [](\A n \in 2..Len(arena) :
             /\ arena[n].name = InternerSym(strings, Str("Document"))
                  <=> NameOf(n) = Str("Document")
             /\ arena[n].name = InternerSym(strings, Str("C")) <=> NameOf(n) = Str("C"))

\* A load returned with a child of `Objects` named `Document` registered, a
\* decodable child of `Documents` named otherwise left out, and no edge for
\* a decodable child of `Connections` named otherwise.
C18_Witness ==
    /\ Returned
    /\ \E n \in Range(ToplevelChildren("Objects")) :
         NameOf(n) = Str("Document") /\ n \in DOMAIN object_meta
    /\ \E n \in OtherDocumentsChildren : Decodes(n) /\ n \notin DOMAIN object_meta
    /\ \E k \in 1..Len(ConnectionChildren) : ~IsC(k) /\ Decoded(k).ok
    /\ objects_graph = <<>>

-----------------------------------------------------------------------------
SomeToplevelMissing ==
    ~HasToplevel("Objects") \/ ~HasToplevel("Documents") \/ ~HasToplevel("Connections")

\* The node-not-found error of the first missing top-level node, in the
\* order `Objects`, `Documents`, `Connections`.
FirstMissing ==
    IF ~HasToplevel("Objects") THEN "NodeNotFound(Objects)"
    ELSE IF ~HasToplevel("Documents") THEN "NodeNotFound(Documents)"
    ELSE "NodeNotFound(Connections)"

\* The passes after the one that failed on a missing node have left no
\* trace.
LaterPassesNotRun ==
    /\ result = ReturnedErr("NodeNotFound(Objects)")
         => /\ DOMAIN object_ids = {} /\ DOMAIN object_meta = {}
            /\ DOMAIN scenes = {} /\ objects_graph = <<>>
    /\ result = ReturnedErr("NodeNotFound(Documents)")
         => /\ DOMAIN object_meta \subseteq Range(ToplevelChildren("Objects"))
            /\ DOMAIN scenes = {} /\ objects_graph = <<>>

\* No anomaly comes before the lookup of the first missing node.
CleanBeforeMissing ==
    /\ HasToplevel("Objects")
         => /\ \A j \in 1..Len(ToplevelChildren("Objects")) : Decodes(ObjectNodes[j])
            /\ \A t \in DuplicateIdPairs : t[2] > Len(ToplevelChildren("Objects"))
    /\ (HasToplevel("Objects") /\ HasToplevel("Documents")) => ObjectsClean

\* A non-strict load skipped the absence: without `Objects` or `Documents`
\* the connections pass has run all the same, and a missing `Connections`
\* is no error; a load that returns has logged the first absence.
AbsenceSkipped ==
    /\ (~HasToplevel("Objects") \/ ~HasToplevel("Documents"))
         => IF AllCDecode THEN result = ReturnedOk /\ GraphIsFirstSeen
            ELSE result = ReturnedErr("ConnectionLoadError")
    /\ ~HasToplevel("Connections") => result.kind # "Err"
    /\ result.kind = "Ok" => FirstMissing \in Range(warnings)

\* C19 as stated: when `Objects`, `Documents` or `Connections` is missing,
\* a strict load fails with the node-not-found error of the first missing
\* one and the later passes are not run; a non-strict load skips the
\* absence, and the connections pass runs also without `Objects` or
\* `Documents`.
C19_MissingToplevel ==
    (Done /\ SomeToplevelMissing)
    => IF strict
       THEN result = ReturnedErr(FirstMissing) /\ LaterPassesNotRun
       ELSE AbsenceSkipped

\* C19 amended: a strict load of such an arena fails, and with the
\* node-not-found error of the first missing node when no other error
\* precedes its lookup; the rest is as stated.
C19_MissingToplevelAmended ==
    (Done /\ SomeToplevelMissing)
    => IF strict
       THEN /\ result.kind = "Err"
            /\ CleanBeforeMissing => result = ReturnedErr(FirstMissing)
            /\ LaterPassesNotRun
       ELSE AbsenceSkipped

\* A non-strict load without `Documents` returned a graph with an edge and
\* an object registered.
C19_Witness ==
    /\ Returned /\ ~strict
    /\ HasToplevel("Objects") /\ ~HasToplevel("Documents")
    /\ DOMAIN object_ids # {}
    /\ Len(objects_graph) > 0

-----------------------------------------------------------------------------
HasUndecodableC == \E k \in 1..Len(ConnectionChildren) : IsC(k) /\ ~Decoded(k).ok

\* The position of the first `C` child that does not decode.
FirstUndecodableC ==
    CHOOSE k \in 1..Len(ConnectionChildren) :
        /\ IsC(k) /\ ~Decoded(k).ok
        /\ \A j \in 1..(k - 1) : IsC(j) => Decoded(j).ok

\* No error comes before the first `C` child that does not decode.
CleanBeforeUndecodable ==
    /\ ObjectsClean
    /\ \A t \in DuplicateConnectionPairs : t[2] > FirstUndecodableC

\* C20: with a `C` child that does not decode, no Document is returned in
\* either mode: the decode error is returned as it is, in strict mode when
\* no other error precedes it and in non-strict mode whenever the load gets
\* to the node (it does unless the lookup of C16 has failed before), with the
\* objects and the connections before the node loaded.
C20_UndecodableConnection ==
    (Done /\ HasUndecodableC)
    => /\ result.kind # "Ok"
       /\ CleanBeforeUndecodable => result = ReturnedErr("ConnectionLoadError")
       /\ ~strict =>
            \/ result = ReturnedErr("ConnectionLoadError")
            \/ result = Panicked("Should never fail: add_object should have added the entry")
       /\ result = ReturnedErr("ConnectionLoadError")
            => /\ conn_index = FirstUndecodableC - 1
               /\ Range(objects_graph) =
                    { Decoded(k).conn :
                        k \in { j \in 1..(FirstUndecodableC - 1) : FirstSeen(j) } }

\* A non-strict load failed with the decode error after it had registered
\* an object and added an edge.
C20_Witness ==
    /\ Done /\ ~strict
    /\ result = ReturnedErr("ConnectionLoadError")
    /\ DOMAIN object_ids # {}
    /\ Len(objects_graph) > 0

-----------------------------------------------------------------------------
\* C21: a call skip_distance(n) of the default method that returns Ok has
\* advanced position() by exactly n, and a call skip_to(pos) that returns Ok
\* leaves position() = pos; a skip past the end of the stream does not
\* return Ok with fewer than n bytes consumed.
C21_SkipExact ==
    [][source_call'.res = "Ok"
       => /\ source_call'.op = "skip_distance"
               => position' = position + source_call'.arg
          /\ source_call'.op = "skip_to" => position' = source_call'.arg]_vars

-----------------------------------------------------------------------------
\* The index of the first item of an iterator that is an Err (0: none is).
FirstErr(items) ==
    IF \A i \in 1..Len(items) : items[i].ok THEN 0
    ELSE CHOOSE i \in 1..Len(items) :
           /\ ~items[i].ok
           /\ \A j \in 1..(i - 1) : items[j].ok

\* C22: ArrayVisitor<Vec<T>> given an iterator of elements returns Ok of a
\* vector with every element yielded, in the order of the iteration, when
\* all elements are Ok; when some element is Err it returns the first such
\* error and no vector.
C22_ArrayVisitorCollects ==
    (visited.method # "none" /\ visitor.kind = "ArrayVisitor" /\ OwnCallback)
    => IF FirstErr(visited.arg) = 0
       THEN /\ visited.ret.ok
            /\ Len(visited.ret.v) = Len(visited.arg)
            /\ \A i \in 1..Len(visited.arg) : visited.ret.v[i] = visited.arg[i].v
       ELSE /\ ~visited.ret.ok
            /\ visited.ret.err = visited.arg[FirstErr(visited.arg)].err

\* An i64 array visitor was given two elements, both of them errors, and
\* returned the error of the first.
C22_Witness ==
    /\ visitor = ArrayVisitor("i64")
    /\ visited.method = "visit_seq_i64"
    /\ Len(visited.arg) = 2
    /\ ~visited.arg[1].ok /\ ~visited.arg[2].ok
    /\ visited.arg[1].err # visited.arg[2].err
    /\ visited.ret = Err(visited.arg[1].err)

====
